---- MODULE Spec2Model ----
(***************************************************************************)
(* A model of the HTTP request builder: Param, Request (the builder, its    *)
(* body setters, its lookups, materialization by make, execution by Send)  *)
(* and Response.                                                           *)
(*                                                                         *)
(* Strings whose characters the code or the platform library inspects      *)
(* (method, url, query keys and values) are sequences of one-character     *)
(* strings; the character 0x7F is written "DEL".  Strings that are only    *)
(* stored and compared (header keys and values, serialized texts) are      *)
(* TLA+ strings.  A Go pointer or interface that may be nil is a sequence  *)
(* of length at most one: Nil is <<>>, a non-nil one holding x is <<x>>.   *)
(***************************************************************************)
EXTENDS Integers, Sequences, FiniteSets, TLC

VARIABLES
  request,  \* the Request under construction
  ctor,     \* the arguments NewRequest was called with
  call,     \* the name of the last operation called on the Request
  arg,      \* its arguments
  ret,      \* what it returned
  client    \* its invocations of client.Do, in order: the native request
            \* handed over and what the platform client answered

vars == <<request, ctor, call, arg, ret, client>>

\* ------------------------------------------------------------- bounds
\* The most Params a Request holds in headers and query together.
MaxParams == 2
\* The longest round trip Send measures, in clock ticks.
MaxElapsed == 1

\* ------------------------------------------------------------- nil
Nil == <<>>
Some(x) == <<x>>

\* ------------------------------------------------------------- characters
\* The characters of the model, in ascending byte order.
Ascii ==
  <<" ", "%", "&", "+", ".", "/", "0", "1", "2", "3", "5", "6", "7", ":", ";",
    "=", "?", "A", "B", "D", "E", "F", "G", "P", "T",
    "a", "b", "c", "d", "e", "f", "g", "h", "l", "m", "o", "p", "q", "r", "t",
    "u", "x", "z", "DEL">>

Ord(c) == CHOOSE i \in 1..Len(Ascii) : Ascii[i] = c

Digits == {"0", "1", "2", "3", "5", "6", "7"}

UpperCase == {"A", "B", "D", "E", "F", "G", "P", "T"}

LowerCase ==
  {"a", "b", "c", "d", "e", "f", "g", "h", "l", "m", "o", "p", "q", "r", "t",
   "u", "x", "z"}

AlphaNum == Digits \cup UpperCase \cup LowerCase

\* strings.ToLower on one character.
ToLower(c) ==
  CASE c = "A" -> "a" [] c = "B" -> "b" [] c = "D" -> "d" [] c = "E" -> "e"
    [] c = "F" -> "f" [] c = "G" -> "g" [] c = "P" -> "p" [] c = "T" -> "t"
    [] OTHER -> c

\* Go compares strings byte by byte: a < b.
RECURSIVE Less(_, _)
Less(a, b) ==
  IF b = <<>> THEN FALSE
  ELSE IF a = <<>> THEN TRUE
  ELSE IF Head(a) # Head(b) THEN Ord(Head(a)) < Ord(Head(b))
  ELSE Less(Tail(a), Tail(b))

\* strings.Index of a one-character separator: 0 when absent.
IndexOf(s, c) ==
  IF \E i \in 1..Len(s) : s[i] = c
  THEN CHOOSE i \in 1..Len(s) : s[i] = c /\ \A j \in 1..(i - 1) : s[j] # c
  ELSE 0

\* strings.Cut(s, c): the text before and after the first c.
Cut(s, c) ==
  LET i == IndexOf(s, c) IN
  IF i = 0 THEN [before |-> s, after |-> <<>>, found |-> FALSE]
  ELSE [before |-> SubSeq(s, 1, i - 1), after |-> SubSeq(s, i + 1, Len(s)),
        found |-> TRUE]

\* ------------------------------------------------------------- net/url escaping
\* The percent-encodings of the characters of the model that have one.
HexOf ==
  [c \in {" ", "%", "&", "+", "/", ":", ";", "=", "?", "DEL"} |->
     CASE c = " " -> <<"2", "0">>
       [] c = "%" -> <<"2", "5">>
       [] c = "&" -> <<"2", "6">>
       [] c = "+" -> <<"2", "B">>
       [] c = "/" -> <<"2", "F">>
       [] c = ":" -> <<"3", "A">>
       [] c = ";" -> <<"3", "B">>
       [] c = "=" -> <<"3", "D">>
       [] c = "?" -> <<"3", "F">>
       [] c = "DEL" -> <<"7", "F">>]

\* url.shouldEscape in query-component mode: letters, digits and "-_.~" pass.
shouldEscape(c) == c \notin AlphaNum \cup {"."}

\* url.QueryEscape: a space becomes "+", an escaped byte becomes %XX.
RECURSIVE QueryEscape(_)
QueryEscape(s) ==
  IF s = <<>> THEN <<>>
  ELSE LET c == Head(s) IN
       (IF c = " " THEN <<"+">>
        ELSE IF shouldEscape(c) THEN <<"%">> \o HexOf[c]
        ELSE <<c>>) \o QueryEscape(Tail(s))

\* url.QueryUnescape: "+" becomes a space, %XX the byte it encodes; a "%" that
\* is not followed by two hexadecimal digits is an error.
RECURSIVE QueryUnescape(_)
QueryUnescape(s) ==
  IF s = <<>> THEN [err |-> FALSE, text |-> <<>>]
  ELSE IF Head(s) = "+" THEN
    LET rest == QueryUnescape(Tail(s)) IN
    [err |-> rest.err, text |-> <<" ">> \o rest.text]
  ELSE IF Head(s) = "%" THEN
    IF Len(s) < 3 \/ ~(\E c \in DOMAIN HexOf : HexOf[c] = SubSeq(s, 2, 3))
    THEN [err |-> TRUE, text |-> <<>>]
    ELSE LET rest == QueryUnescape(SubSeq(s, 4, Len(s))) IN
         [err |-> rest.err,
          text |-> <<CHOOSE c \in DOMAIN HexOf : HexOf[c] = SubSeq(s, 2, 3)>>
                   \o rest.text]
  ELSE LET rest == QueryUnescape(Tail(s)) IN
       [err |-> rest.err, text |-> <<Head(s)>> \o rest.text]

\* ------------------------------------------------------------- url.Values
\* url.Values is a map from a key to the list of its values: a function whose
\* domain is the set of keys present.
EmptyValues == [k \in {} |-> <<>>]

\* Values.Add appends the value to the key's list.
ValuesAdd(q, key, value) ==
  IF key \in DOMAIN q THEN [q EXCEPT ![key] = Append(@, value)]
  ELSE q @@ (key :> <<value>>)

\* The keys of a map in ascending order (slices.Sort in Values.Encode).
RECURSIVE SortedKeys(_)
SortedKeys(S) ==
  IF S = {} THEN <<>>
  ELSE LET m == CHOOSE x \in S : \A y \in S \ {x} : Less(x, y) IN
       <<m>> \o SortedKeys(S \ {m})

RECURSIVE EncodeKey(_, _)
EncodeKey(key, values) ==
  IF values = <<>> THEN <<>>
  ELSE <<QueryEscape(key) \o <<"=">> \o QueryEscape(Head(values))>>
       \o EncodeKey(key, Tail(values))

RECURSIVE JoinAmp(_)
JoinAmp(pieces) ==
  IF pieces = <<>> THEN <<>>
  ELSE IF Len(pieces) = 1 THEN Head(pieces)
  ELSE Head(pieces) \o <<"&">> \o JoinAmp(Tail(pieces))

RECURSIVE EncodeKeys(_, _)
EncodeKeys(q, keys) ==
  IF keys = <<>> THEN <<>>
  ELSE EncodeKey(Head(keys), q[Head(keys)]) \o EncodeKeys(q, Tail(keys))

\* Values.Encode: "k=v" pieces joined by "&", keys ascending, the values of a
\* key in the order they were added.
Encode(q) == JoinAmp(EncodeKeys(q, SortedKeys(DOMAIN q)))

\* url.ParseQuery as URL.Query uses it (errors dropped): the pieces between
\* "&" are added in order; an empty piece, a piece holding ";" and a piece
\* whose key or value does not unescape are skipped.
RECURSIVE ParseQuery(_, _)
ParseQuery(q, query) ==
  IF query = <<>> THEN q
  ELSE LET c == Cut(query, "&")
           kv == Cut(c.before, "=")
           k == QueryUnescape(kv.before)
           v == QueryUnescape(kv.after)
       IN IF c.before = <<>> \/ IndexOf(c.before, ";") # 0 \/ k.err \/ v.err
          THEN ParseQuery(q, c.after)
          ELSE ParseQuery(ValuesAdd(q, k.text, v.text), c.after)

\* ------------------------------------------------------------- constructor inputs
GET == <<"G", "E", "T">>

\* http://example.com
example ==
  <<"h", "t", "t", "p", ":", "/", "/", "e", "x", "a", "m", "p", "l", "e", ".",
    "c", "o", "m">>

foo == <<"f", "o", "o">>
bar == <<"b", "a", "r">>
baz == <<"b", "a", "z">>
qux == <<"q", "u", "x">>

\* The (method, url) pairs NewRequest is called with: valid ones, a url that
\* already holds a query (a repeated key, an escaped value, a piece with ";"),
\* an empty method, a method that is no token, a url without scheme and a url
\* holding a control byte.
Ctors ==
  { [method |-> GET, url |-> example],
    [method |-> GET,
     url |-> example \o <<"?">> \o foo \o <<"=", "a", "+", "b", "&", "e", "=",
                                          "%", "2", "6", "&", "x", ";", "=",
                                          "1">>],
    [method |-> <<>>, url |-> example \o <<"?">>],
    [method |-> <<"G", " ", "T">>, url |-> example],
    [method |-> GET, url |-> <<":", "/", "/", "e">>],
    [method |-> <<"P", "U", "T">>, url |-> example \o <<"/", "DEL">>] }

\* ------------------------------------------------------------- net/url parsing
\* url.getScheme: the text before the first ":" when it is a scheme name.
\* kind is "scheme", "none" (no scheme, the whole text is the rest) or
\* "error" (missing protocol scheme: the text starts with ":").
RECURSIVE getScheme(_, _)
getScheme(rawURL, i) ==
  IF i > Len(rawURL) THEN [kind |-> "none", scheme |-> <<>>, rest |-> rawURL]
  ELSE LET c == rawURL[i] IN
       IF c \in UpperCase \cup LowerCase THEN getScheme(rawURL, i + 1)
       ELSE IF c \in Digits \cup {"+", "."} THEN
         IF i = 1 THEN [kind |-> "none", scheme |-> <<>>, rest |-> rawURL]
         ELSE getScheme(rawURL, i + 1)
       ELSE IF c = ":" THEN
         IF i = 1 THEN [kind |-> "error", scheme |-> <<>>, rest |-> <<>>]
         ELSE [kind |-> "scheme", scheme |-> SubSeq(rawURL, 1, i - 1),
               rest |-> SubSeq(rawURL, i + 1, Len(rawURL))]
       ELSE [kind |-> "none", scheme |-> <<>>, rest |-> rawURL]

\* strings.Count of a one-character separator.
CountOf(s, c) == Cardinality({i \in 1..Len(s) : s[i] = c})

\* url.Parse for the urls of the model (none holds "#", user information or a
\* port): a control byte or a missing scheme is an error; the scheme is
\* lower-cased; a lone trailing "?" sets ForceQuery; otherwise the text after
\* the first "?" is RawQuery.  Rest is the authority and path, kept as written.
parse(rawURL) ==
  LET s == getScheme(rawURL, 1)
      rest == s.rest
      force == rest # <<>> /\ rest[Len(rest)] = "?" /\ CountOf(rest, "?") = 1
      c == Cut(rest, "?")
  IN IF IndexOf(rawURL, "DEL") # 0 \/ s.kind = "error"
     THEN Nil
     ELSE Some([Scheme |-> [i \in 1..Len(s.scheme) |-> ToLower(s.scheme[i])],
                Rest |-> IF force THEN SubSeq(rest, 1, Len(rest) - 1)
                         ELSE c.before,
                RawQuery |-> IF force THEN <<>> ELSE c.after,
                ForceQuery |-> force])

\* url.Parse, computed once for each url of the model.
ParsedURL == [rawURL \in {c.url : c \in Ctors} |-> parse(rawURL)]

urlParse(rawURL) ==
  IF rawURL \in DOMAIN ParsedURL THEN ParsedURL[rawURL] ELSE parse(rawURL)

\* URL.String.
URLString(u) ==
  (IF u.Scheme # <<>> THEN u.Scheme \o <<":">> ELSE <<>>) \o u.Rest
  \o (IF u.ForceQuery \/ u.RawQuery # <<>> THEN <<"?">> \o u.RawQuery
      ELSE <<>>)

\* URL.Query: the parsed RawQuery, parse errors dropped; computed once for
\* each url of the model.
ParsedQuery ==
  [query \in {ParsedURL[rawURL][1].RawQuery :
                rawURL \in {x \in DOMAIN ParsedURL : ParsedURL[x] # Nil}} |->
     ParseQuery(EmptyValues, query)]

URLQuery(u) ==
  IF u.RawQuery \in DOMAIN ParsedQuery THEN ParsedQuery[u.RawQuery]
  ELSE ParseQuery(EmptyValues, u.RawQuery)

\* ------------------------------------------------------------- net/http
\* http.validMethod: a non-empty token.
validMethod(method) ==
  /\ Len(method) > 0
  /\ \A i \in 1..Len(method) : method[i] \in AlphaNum \cup {"%", "&", "+", "."}

\* http.NoBody: the explicit empty body, non-nil with no content.
NoBody == [kind |-> "http.NoBody", data |-> <<>>]

\* io.NopCloser wraps a reader; the content is the reader's.
NopCloser(reader) == [kind |-> "io.NopCloser", data |-> reader.data]

\* strings.NewReader.
NewReader(s) == [kind |-> "strings.Reader", data |-> s]

\* textproto.CanonicalMIMEHeaderKey for the header keys of the model.
CanonicalMIMEHeaderKey(key) ==
  CASE key = "accept" -> "Accept"
    [] key = "content-type" -> "Content-Type"
    [] OTHER -> key

EmptyHeader == [k \in {} |-> <<>>]

\* http.Header.Add: appends the value under the canonical key.
HeaderAdd(h, key, value) ==
  LET k == CanonicalMIMEHeaderKey(key) IN
  IF k \in DOMAIN h THEN [h EXCEPT ![k] = Append(@, value)]
  ELSE h @@ (k :> <<value>>)

\* http.NewRequest(method, url, body): nil on an invalid method or url; an
\* empty method is GET; a body that is no ReadCloser is wrapped in NopCloser.
httpNewRequest(method, url, body) ==
  LET m == IF method = <<>> THEN <<"G", "E", "T">> ELSE method
      u == urlParse(url)
  IN IF ~validMethod(m) \/ u = Nil THEN Nil
     ELSE Some([Method |-> m,
                URL |-> u[1],
                Header |-> EmptyHeader,
                Body |-> IF body = Nil THEN Nil
                         ELSE IF body[1].kind = "io.NopCloser" THEN body
                         ELSE Some(NopCloser(body[1]))])

\* ------------------------------------------------------------- serializers
\* json.Marshal of a one-field value: a channel cannot be serialized.
jsonMarshal(v) ==
  IF v.type = "chan" THEN [err |-> TRUE, text |-> <<>>]
  ELSE [err |-> FALSE, text |-> <<"{\"", v.field, "\":\"", v.value, "\"}">>]

\* xml.Marshal of a one-field value: neither a channel nor a map can be
\* serialized.
xmlMarshal(v) ==
  IF v.type \in {"chan", "map"} THEN [err |-> TRUE, text |-> <<>>]
  ELSE [err |-> FALSE,
        text |-> <<"<T><", v.field, ">", v.value, "</", v.field, "></T>">>]

\* The url.Values a Go map[string]string fills by form.Add on each entry.
RECURSIVE FormOf(_, _)
FormOf(body, keys) ==
  IF keys = {} THEN EmptyValues
  ELSE LET k == CHOOSE x \in keys : TRUE IN
       ValuesAdd(FormOf(body, keys \ {k}), k, body[k])

\* multipart.Writer.WriteField on each entry, in the order the map iteration
\* gave: one part per field.
RECURSIVE WriteFields(_, _, _)
WriteFields(body, order, boundary) ==
  IF order = <<>> THEN <<>>
  ELSE <<"--", boundary, "\r\nContent-Disposition: form-data; name=\"">>
       \o Head(order) \o <<"\"\r\n\r\n">> \o body[Head(order)] \o <<"\r\n">>
       \o WriteFields(body, Tail(order), boundary)

\* multipart.Writer.CreateFormFile followed by io.Copy of the file.
WriteFile(fileKey, fileName, content, boundary) ==
  <<"--", boundary, "\r\nContent-Disposition: form-data; name=\"", fileKey,
    "\"; filename=\"", fileName,
    "\"\r\nContent-Type: application/octet-stream\r\n\r\n">>
  \o content \o <<"\r\n">>

\* multipart.Writer.Close: the closing boundary.
WriteClose(boundary) == <<"--", boundary, "--\r\n">>

\* bytes.Buffer holding the bytes written to it.
Buffer(data) == [kind |-> "bytes.Buffer", data |-> data]

\* ------------------------------------------------------------- Param
newParam(key, value) == [Key |-> key, Value |-> value]

\* ------------------------------------------------------------- Request
NewRequest(method, url) ==
  [Method |-> method, URL |-> url, Body |-> Nil, Headers |-> <<>>,
   Query |-> <<>>]

\* A variant of AddHeader that rewrites the value of a key already present.
AddHeader_Dedupe(r, key, value) ==
  IF \E i \in 1..Len(r.Headers) : r.Headers[i].Key = key
  THEN [r EXCEPT !.Headers =
          [i \in 1..Len(@) |->
             IF @[i].Key = key THEN newParam(key, value) ELSE @[i]]]
  ELSE [r EXCEPT !.Headers = Append(@, newParam(key, value))]

AddHeader(r, key, value) ==
  [r EXCEPT !.Headers = Append(@, newParam(key, value))]

\* A variant of AddQuery that also writes the pair into the url.
AddQuery_RewritesURL(r, key, value) ==
  [r EXCEPT !.Query = Append(@, newParam(key, value)),
            !.URL = @ \o <<"?">> \o key \o <<"=">> \o value]

AddQuery(r, key, value) ==
  [r EXCEPT !.Query = Append(@, newParam(key, value))]

AddBody(r, body) == [r EXCEPT !.Body = body]

\* A variant of AddBodyString that appends to the body already set.
AddBodyString_Appends(r, body) ==
  [r EXCEPT !.Body =
     Some(NopCloser(NewReader((IF @ = Nil THEN <<>> ELSE @[1].data) \o body)))]

AddBodyString(r, body) ==
  [r EXCEPT !.Body = Some(NopCloser(NewReader(body)))]

\* A variant of AddBodyJSON that clears the body when serialization fails.
AddBodyJSON_ClearsBody(r, body) ==
  LET r1 == AddHeader(r, "Content-Type", "application/json")
      m == jsonMarshal(body)
  IN IF m.err THEN AddBody(r1, Nil) ELSE AddBodyString(r1, m.text)

AddBodyJSON(r, body) ==
  LET r1 == AddHeader(r, "Content-Type", "application/json")
      m == jsonMarshal(body)
  IN IF m.err THEN r1 ELSE AddBodyString(r1, m.text)

AddBodyXML(r, body) ==
  LET r1 == AddHeader(r, "Content-Type", "application/xml")
      m == xmlMarshal(body)
  IN IF m.err THEN r1 ELSE AddBodyString(r1, m.text)

AddBodyForm(r, body) ==
  LET r1 == AddHeader(r, "Content-Type", "application/x-www-form-urlencoded")
      form == FormOf(body, DOMAIN body)
  IN AddBodyString(r1, Encode(form))

\* order is the order the map iteration visits the keys in; boundary is the
\* boundary multipart.NewWriter draws.
AddBodyMultipartForm(r, body, order, boundary) ==
  LET r1 == AddHeader(r, "Content-Type", "multipart/form-data")
      b == WriteFields(body, order, boundary) \o WriteClose(boundary)
  IN AddBody(r1, Some(Buffer(b)))

\* createErr is whether CreateFormFile failed; file is what os.Open found at
\* filePath (Nil: the open failed).
AddBodyMultipartFormFile(r, body, order, boundary, fileKey, fileName, createErr, file) ==
  LET r1 == AddHeader(r, "Content-Type", "multipart/form-data")
      b == WriteFields(body, order, boundary)
           \o WriteFile(fileKey, fileName, file[1], boundary)
           \o WriteClose(boundary)
  IN IF createErr THEN r1
     ELSE IF file = Nil THEN r1
     ELSE AddBody(r1, Some(Buffer(b)))

RECURSIVE Lookup(_, _)
Lookup(params, key) ==
  IF params = <<>> THEN Nil
  ELSE IF Head(params).Key = key THEN Some(Head(params).Value)
  ELSE Lookup(Tail(params), key)

\* The last Param with the key instead of the first.
LookupLast(params, key) ==
  LET hits == {i \in 1..Len(params) : params[i].Key = key} IN
  IF hits = {} THEN Nil
  ELSE Some(params[CHOOSE i \in hits : \A j \in hits : j <= i].Value)

\* A variant of GetHeader that returns the last match.
GetHeader_LastMatch(r, key) ==
  LET v == LookupLast(r.Headers, key) IN IF v = Nil THEN "" ELSE v[1]

GetHeader(r, key) ==
  LET v == Lookup(r.Headers, key) IN IF v = Nil THEN "" ELSE v[1]

\* A variant of GetQuery that returns the last match.
GetQuery_LastMatch(r, key) ==
  LET v == LookupLast(r.Query, key) IN IF v = Nil THEN <<>> ELSE v[1]

GetQuery(r, key) ==
  LET v == Lookup(r.Query, key) IN IF v = Nil THEN <<>> ELSE v[1]

\* The loop of make over r.Headers: req.Header.Add on each, in order.
RECURSIVE AddHeaders(_, _)
AddHeaders(h, headers) ==
  IF headers = <<>> THEN h
  ELSE AddHeaders(HeaderAdd(h, Head(headers).Key, Head(headers).Value),
                  Tail(headers))

\* The loop of make over r.Query: q.Add on each, in order.
RECURSIVE AddQueries(_, _)
AddQueries(q, query) ==
  IF query = <<>> THEN q
  ELSE AddQueries(ValuesAdd(q, Head(query).Key, Head(query).Value),
                  Tail(query))

\* A variant of make without the assignment of http.NoBody.
make_KeepBody(r) ==
  LET req == httpNewRequest(r.Method, r.URL, r.Body) IN
  IF req = Nil THEN Nil
  ELSE LET h == AddHeaders(req[1].Header, r.Headers)
           q == AddQueries(URLQuery(req[1].URL), r.Query)
       IN Some([req[1] EXCEPT !.Header = h, !.URL.RawQuery = Encode(q)])

\* A variant of make that appends the pairs of r.Query to the url's query in
\* the order they were added.
make_InsertionOrder(r) ==
  LET req == httpNewRequest(r.Method, r.URL, r.Body) IN
  IF req = Nil THEN Nil
  ELSE LET h == AddHeaders(req[1].Header, r.Headers)
           old == IF req[1].URL.RawQuery = <<>> THEN <<>>
                  ELSE <<req[1].URL.RawQuery>>
           new == [i \in 1..Len(r.Query) |->
                     QueryEscape(r.Query[i].Key) \o <<"=">>
                     \o QueryEscape(r.Query[i].Value)]
       IN Some([req[1] EXCEPT !.Header = h,
                              !.URL.RawQuery = JoinAmp(old \o new),
                              !.Body = Some(NoBody)])

make(r) ==
  LET req == httpNewRequest(r.Method, r.URL, r.Body) IN
  IF req = Nil THEN Nil
  ELSE LET h == AddHeaders(req[1].Header, r.Headers)
           q == AddQueries(URLQuery(req[1].URL), r.Query)
       IN Some([req[1] EXCEPT !.Header = h,
                              !.URL.RawQuery = Encode(q),
                              !.Body = Some(NoBody)])

\* ------------------------------------------------------------- Response
Response(statusCode, body, duration) ==
  [StatusCode |-> statusCode, Duration |-> duration, Body |-> body,
   Headers |-> <<>>]

\* A variant of Send that reports a failed materialization as an error.
Send_ErrorOnNil(req, do, start, end) ==
  IF req = Nil
  THEN [resp |-> Nil, err |-> Some("invalid request"), client |-> <<>>]
  ELSE LET done == <<[req |-> req[1], do |-> do]>> IN
       IF do.err # Nil THEN [resp |-> Nil, err |-> do.err, client |-> done]
       ELSE [resp |-> Some(Response(do.resp.StatusCode, do.resp.Body,
                                    end - start)),
             err |-> Nil, client |-> done]

\* A variant of Send that asks the platform client a second time after a
\* transport failure.
Send_Retry(req, do, start, end) ==
  IF req = Nil THEN [resp |-> Nil, err |-> Nil, client |-> <<>>]
  ELSE LET done == <<[req |-> req[1], do |-> do]>> IN
       IF do.err # Nil
       THEN [resp |-> Nil, err |-> do.err, client |-> done \o done]
       ELSE [resp |-> Some(Response(do.resp.StatusCode, do.resp.Body,
                                    end - start)),
             err |-> Nil, client |-> done]

\* Send from its call of make on: req is what r.make() returned, do what the
\* platform client answers when asked (do.err is Nil or the transport error,
\* do.resp the platform response), start and end the two clock readings.  It
\* yields the Response, the error and the invocations of client.Do.
Send(req, do, start, end) ==
  IF req = Nil THEN [resp |-> Nil, err |-> Nil, client |-> <<>>]
  ELSE LET done == <<[req |-> req[1], do |-> do]>> IN
       IF do.err # Nil THEN [resp |-> Nil, err |-> do.err, client |-> done]
       ELSE [resp |-> Some(Response(do.resp.StatusCode, do.resp.Body,
                                    end - start)),
             err |-> Nil, client |-> done]

\* ------------------------------------------------------------- inputs
HeaderKeys == {"Content-Type", "accept"}
HeaderValues == {"application/json", "text/plain"}
QueryKeys == {foo, baz}
QueryValues == {bar, qux}

\* The byte streams AddBody is given.
Streams == {NewReader(<<"hello world">>)}
Strings == {<<"hello world">>}

\* The values AddBodyJSON and AddBodyXML are given.
Values ==
  { [type |-> "struct", field |-> "foo", value |-> "bar"],
    [type |-> "map", field |-> "foo", value |-> "bar"],
    [type |-> "chan", field |-> "", value |-> ""] }

\* The Go maps the form setters are given.
Maps == {(foo :> bar) @@ (baz :> qux)}

\* The orders a map iteration may visit the keys of a map in.
Orders(m) ==
  {o \in [1..Cardinality(DOMAIN m) -> DOMAIN m] :
     \A i, j \in DOMAIN o : i # j => o[i] # o[j]}

\* The boundaries multipart.NewWriter may draw.
Boundaries == {"boundary-1", "boundary-2"}

\* The outcomes of CreateFormFile: writing a part header into a bytes.Buffer
\* does not fail.
CreateErrs == {FALSE}

\* The file system os.Open reads: one file that exists, one that does not.
Files ==
  ("/tmp/file.txt" :> Some(<<"file content">>)) @@ ("/tmp/missing" :> Nil)

\* What client.Do may answer: a transport error or a platform response.
Answers ==
  {[err |-> Some("transport error"), resp |-> [StatusCode |-> 0, Body |-> Nil]]}
  \cup {[err |-> Nil,
         resp |-> [StatusCode |-> c,
                   Body |-> Some(NewReader(<<"Hello, client\n">>))]] :
          c \in {200}}

\* ------------------------------------------------------------- the state machine
Init ==
  /\ ctor \in Ctors
  /\ request = NewRequest(ctor.method, ctor.url)
  /\ call = "NewRequest"
  /\ arg = ctor
  /\ ret = Nil
  /\ client = <<>>

\* Room for one more Param.
Room == Len(request.Headers) + Len(request.Query) < MaxParams

Called(name, a, r, v, s) ==
  /\ request' = r
  /\ call' = name
  /\ arg' = a
  /\ ret' = v
  /\ client' = s
  /\ UNCHANGED ctor

CallAddHeader ==
  /\ Room
  /\ \E key \in HeaderKeys, value \in HeaderValues :
       Called("AddHeader", [key |-> key, value |-> value],
              AddHeader(request, key, value), Nil, <<>>)

CallAddQuery ==
  /\ Room
  /\ \E key \in QueryKeys, value \in QueryValues :
       Called("AddQuery", [key |-> key, value |-> value],
              AddQuery(request, key, value), Nil, <<>>)

CallAddBody ==
  \E body \in Streams :
    Called("AddBody", [body |-> Some(body)], AddBody(request, Some(body)), Nil,
           <<>>)

CallAddBodyString ==
  \E body \in Strings :
    Called("AddBodyString", [body |-> body], AddBodyString(request, body), Nil,
           <<>>)

CallAddBodyJSON ==
  /\ Room
  /\ \E body \in Values :
       Called("AddBodyJSON", [body |-> body], AddBodyJSON(request, body), Nil,
              <<>>)

CallAddBodyXML ==
  /\ Room
  /\ \E body \in Values :
       Called("AddBodyXML", [body |-> body], AddBodyXML(request, body), Nil,
              <<>>)

CallAddBodyForm ==
  /\ Room
  /\ \E body \in Maps :
       Called("AddBodyForm", [body |-> body], AddBodyForm(request, body), Nil,
              <<>>)

CallAddBodyMultipartForm ==
  /\ Room
  /\ \E body \in Maps :
       \E order \in Orders(body), boundary \in Boundaries :
         Called("AddBodyMultipartForm",
                [body |-> body, order |-> order, boundary |-> boundary],
                AddBodyMultipartForm(request, body, order, boundary), Nil, <<>>)

CallAddBodyMultipartFormFile ==
  /\ Room
  /\ \E body \in Maps, filePath \in DOMAIN Files, createErr \in CreateErrs :
       \E order \in Orders(body), boundary \in Boundaries :
         Called("AddBodyMultipartFormFile",
                [body |-> body, order |-> order, boundary |-> boundary,
                 fileKey |-> "file", fileName |-> "file.txt",
                 filePath |-> filePath, createErr |-> createErr],
                AddBodyMultipartFormFile(request, body, order, boundary, "file",
                                         "file.txt", createErr,
                                         Files[filePath]),
                Nil, <<>>)

CallGetHeader ==
  \E key \in HeaderKeys :
    Called("GetHeader", [key |-> key], request, GetHeader(request, key), <<>>)

CallGetQuery ==
  \E key \in QueryKeys :
    Called("GetQuery", [key |-> key], request, GetQuery(request, key), <<>>)

CallMake == Called("make", Nil, request, make(request), <<>>)

CallSend ==
  LET req == make(request) IN
  \E do \in Answers, start \in {0}, elapsed \in 1..MaxElapsed :
    LET out == Send(req, do, start, start + elapsed) IN
    Called("Send", Nil, request, [resp |-> out.resp, err |-> out.err],
           out.client)

Next ==
  \/ CallAddHeader
  \/ CallAddQuery
  \/ CallAddBody
  \/ CallAddBodyString
  \/ CallAddBodyJSON
  \/ CallAddBodyXML
  \/ CallAddBodyForm
  \/ CallAddBodyMultipartForm
  \/ CallAddBodyMultipartFormFile
  \/ CallGetHeader
  \/ CallGetQuery
  \/ CallMake
  \/ CallSend

Spec == Init /\ [][Next]_vars

\* ------------------------------------------------------------- properties
IsPrefix(a, b) == Len(a) <= Len(b) /\ SubSeq(b, 1, Len(a)) = a

HasKey(params, key) == \E i \in 1..Len(params) : params[i].Key = key

\* v is the Value of the earliest Param of params with the key, or none when
\* no Param has the key.
IsFirstMatch(params, key, v, none) ==
  IF HasKey(params, key)
  THEN \E i \in 1..Len(params) :
         /\ params[i].Key = key
         /\ \A j \in 1..(i - 1) : params[j].Key # key
         /\ v = params[i].Value
  ELSE v = none

LastParam(params) == params[Len(params)]

\* C1 as stated: GetHeader(key) right after AddHeader(key, value) returns
\* value, whatever headers the Request already holds; and GetHeader(key)
\* returns the empty string when no header has the key.
C1_AddThenGetReturnsValue ==
  [][/\ (call = "AddHeader" /\ call' = "GetHeader" /\ arg'.key = arg.key)
          => ret' = arg.value
     /\ (call' = "GetHeader" /\ ~HasKey(request'.Headers, arg'.key))
          => ret' = ""]_vars

\* C1 as amended: GetHeader(key) returns the Value of the earliest Param of
\* headers with that key, the empty string when there is none; right after
\* AddHeader(key, value) that is value when no Param with the key was in
\* headers before the AddHeader call.
C1_GetHeaderReturnsFirst ==
  [][call' = "GetHeader" =>
       /\ IsFirstMatch(request'.Headers, arg'.key, ret', "")
       /\ (/\ call = "AddHeader"
           /\ arg.key = arg'.key
           /\ \A i \in 1..(Len(request.Headers) - 1) :
                request.Headers[i].Key # arg.key)
            => ret' = arg.value]_vars

C1_Witness ==
  /\ call = "GetHeader"
  /\ Len(request.Headers) = 2
  /\ arg.key = "accept"
  /\ request.Headers[1].Key = "accept"
  /\ request.Headers[2].Key = "accept"
  /\ request.Headers[1].Value # request.Headers[2].Value
  /\ ret = request.Headers[1].Value

\* C2: Send on a Request that make cannot materialize returns a nil Response
\* and a nil error, and never invokes the platform client.
C2_SendNilNil ==
  (call = "Send" /\ make(request) = Nil)
    => (ret.resp = Nil /\ ret.err = Nil /\ client = <<>>)

C2_Witness ==
  /\ call = "Send"
  /\ ~validMethod(request.Method)
  /\ request.Method # <<>>
  /\ ret.resp = Nil
  /\ ret.err = Nil

\* C3: when the platform client reports a transport failure, Send returns a
\* nil Response and that error; Send never returns a Response together with
\* an error; Send invokes the client at most once.
C3_SendTransportFailure ==
  call = "Send" =>
    /\ Len(client) <= 1
    /\ ~(ret.resp # Nil /\ ret.err # Nil)
    /\ (client # <<>> /\ client[1].do.err # Nil)
         => (ret.resp = Nil /\ ret.err = client[1].do.err)

C3_Witness ==
  /\ call = "Send"
  /\ Len(client) = 1
  /\ client[1].do.err # Nil
  /\ ret.resp = Nil
  /\ ret.err # Nil

\* C4: the native request make produces, and the one Send hands to the
\* platform client, carries the explicit empty body and never the body stored
\* on the Request.
C4_MakeDropsBody ==
  /\ (call = "make" /\ ret # Nil)
       => (ret[1].Body = Some(NoBody) /\ ret[1].Body # request.Body)
  /\ call = "Send" =>
       \A i \in 1..Len(client) :
         /\ client[i].req.Body = Some(NoBody)
         /\ client[i].req.Body # request.Body

C4_Witness ==
  /\ call = "Send"
  /\ request.Body # Nil
  /\ Len(client) = 1
  /\ client[1].req.Body = Some(NoBody)

\* C5 as stated: after AddBodyJSON of a value that cannot be serialized the
\* body field is nil and a Content-Type: application/json Param is the last of
\* headers.
C5_JSONErrorBodyNil ==
  (call = "AddBodyJSON" /\ arg.body.type = "chan")
    => /\ request.Body = Nil
       /\ request.Headers # <<>>
       /\ LastParam(request.Headers)
            = newParam("Content-Type", "application/json")

\* C5 as amended: AddBodyJSON of a value that cannot be serialized leaves the
\* body field as it was before the call (nil only when it was nil) and appends
\* a Content-Type: application/json Param to headers.
C5_JSONErrorBodyUnchanged ==
  [][(call' = "AddBodyJSON" /\ arg'.body.type = "chan")
       => /\ request'.Body = request.Body
          /\ request'.Headers
               = Append(request.Headers,
                        newParam("Content-Type", "application/json"))]_vars

C5_Witness ==
  /\ call = "AddBodyJSON"
  /\ arg.body.type = "chan"
  /\ request.Body # Nil
  /\ LastParam(request.Headers) = newParam("Content-Type", "application/json")

\* C6: Method and URL equal the arguments NewRequest was given, in every
\* reachable state.
C6_MethodURLFixed ==
  /\ request.Method = ctor.method
  /\ request.URL = ctor.url

C6_Witness ==
  /\ call = "Send"
  /\ request.Query # <<>>
  /\ request.Body # Nil
  /\ client # <<>>

\* The "k=v" pieces of a query string.
RECURSIVE Pieces(_)
Pieces(query) ==
  IF query = <<>> THEN <<>>
  ELSE LET c == Cut(query, "&") IN <<c.before>> \o Pieces(c.after)

\* The Values of the Params of params with the key, in order.
RECURSIVE ValuesOf(_, _)
ValuesOf(params, key) ==
  IF params = <<>> THEN <<>>
  ELSE (IF Head(params).Key = key THEN <<Head(params).Value>> ELSE <<>>)
       \o ValuesOf(Tail(params), key)

C8_GetQueryReturnsFirst ==
  [][/\ call' = "GetQuery" =>
          /\ request' = request
          /\ IsFirstMatch(request.Query, arg'.key, ret', <<>>)
     /\ call' = "AddQuery" =>
          \A k \in QueryKeys :
            HasKey(request.Query, k)
              => GetQuery(request', k) = GetQuery(request, k)]_vars

C8_Witness ==
  /\ call = "GetQuery"
  /\ Len(request.Query) = 2
  /\ request.Query[1].Key = arg.key
  /\ request.Query[2].Key = arg.key
  /\ request.Query[1].Value # request.Query[2].Value
  /\ ret = request.Query[1].Value

BodySetters ==
  {"AddBody", "AddBodyString", "AddBodyJSON", "AddBodyXML", "AddBodyForm",
   "AddBodyMultipartForm", "AddBodyMultipartFormFile"}

TypedBodySetters == BodySetters \ {"AddBody", "AddBodyString"}

\* The body a body-setting call installs on a Request that has none: Nil when
\* the call fails.
Installs(name, a) ==
  LET fresh == NewRequest(ctor.method, ctor.url) IN
  CASE name = "AddBody" -> AddBody(fresh, a.body).Body
    [] name = "AddBodyString" -> AddBodyString(fresh, a.body).Body
    [] name = "AddBodyJSON" -> AddBodyJSON(fresh, a.body).Body
    [] name = "AddBodyXML" -> AddBodyXML(fresh, a.body).Body
    [] name = "AddBodyForm" -> AddBodyForm(fresh, a.body).Body
    [] name = "AddBodyMultipartForm" ->
         AddBodyMultipartForm(fresh, a.body, a.order, a.boundary).Body
    [] name = "AddBodyMultipartFormFile" ->
         AddBodyMultipartFormFile(fresh, a.body, a.order, a.boundary,
                                  a.fileKey, a.fileName, a.createErr,
                                  Files[a.filePath]).Body

\* C9: the body is nil until a body-setting call succeeds; a body-setting call
\* that succeeds makes it the value that call installs, whatever it was
\* before; a body-setting call that fails and every other operation leave it
\* unchanged.
C9_BodyLastWriteWins ==
  /\ (call = "NewRequest" => request.Body = Nil)
  /\ [][IF call' \in BodySetters /\ Installs(call', arg') # Nil
        THEN request'.Body = Installs(call', arg')
        ELSE request'.Body = request.Body]_vars

C9_Witness ==
  /\ call = "AddBodyString"
  /\ HasKey(request.Headers, "Content-Type")
  /\ \E i \in 1..Len(request.Headers) :
       request.Headers[i].Value = "application/x-www-form-urlencoded"
  /\ request.Body = Some(NopCloser(NewReader(<<"hello world">>)))

\* C10: every operation leaves headers and query unchanged or extended at the
\* end; AddHeader and AddQuery append exactly their Param to their own
\* sequence; each typed body setter appends exactly one Content-Type Param to
\* headers; AddBody, AddBodyString and the other operations append nothing.
C10_AppendOnly ==
  [][/\ IsPrefix(request.Headers, request'.Headers)
     /\ IsPrefix(request.Query, request'.Query)
     /\ call' = "AddHeader" =>
          /\ request'.Headers
               = Append(request.Headers, newParam(arg'.key, arg'.value))
          /\ request'.Query = request.Query
     /\ call' = "AddQuery" =>
          /\ request'.Query
               = Append(request.Query, newParam(arg'.key, arg'.value))
          /\ request'.Headers = request.Headers
     /\ call' \in TypedBodySetters =>
          /\ Len(request'.Headers) = Len(request.Headers) + 1
          /\ LastParam(request'.Headers).Key = "Content-Type"
          /\ request'.Query = request.Query
     /\ call' \notin TypedBodySetters \cup {"AddHeader", "AddQuery"} =>
          /\ request'.Headers = request.Headers
          /\ request'.Query = request.Query]_vars

C10_Witness ==
  /\ call = "AddBodyMultipartFormFile"
  /\ arg.filePath = "/tmp/missing"
  /\ Len(request.Headers) = 2
  /\ request.Headers[1] = newParam("Content-Type", "text/plain")
  /\ request.Headers[2] = newParam("Content-Type", "multipart/form-data")

====
